---- MODULE Spec2Model ----
(***************************************************************************)
(* State-machine model of the MongoDB change-stream trigger                *)
(* (nodes/MongoDbChangeStream/MongoDbChangeStream.node.ts, trigger()).     *)
(*                                                                         *)
(* One step of the model is one task of the JavaScript event loop: the     *)
(* synchronous part of a callback up to its next await, together with the  *)
(* promise continuations that run before the next I/O event.  An `await`   *)
(* on I/O (connection wait, ping, findOne, replaceOne, close) splits a     *)
(* function into separate steps, and any other callback may run between.   *)
(***************************************************************************)
EXTENDS Integers, Sequences, FiniteSets, TLC

VARIABLES
    saveFrequency,      \* options.resumeTokenSaveFrequency || 'smart'
    resumeFromDB,       \* options.resumeFromDB || false
    cfg,                \* the other node parameters and options (a record)
    deployment,         \* the MongoDB deployment: the kinds of change it
                        \* produces, and whether the checkpoint collection
                        \* has a unique index on key
    pc,                 \* position of trigger() in its startup sequence
    nodeConnection,     \* the variable nodeConnection: "null" or "conn"
    connState,          \* state of the dedicated connection object
    changeStream,       \* the variable changeStream: "null" or "stream"
    streamState,        \* state of the change stream object
    watch,              \* the arguments watch() was called with
    isClosing,          \* the closing flag
    closePc,            \* position of the closeFunction call that passed the flag
    timer,              \* the 30 s connection timer
    waitPromise,        \* the promise trigger() awaits while connecting
    startupError,       \* what the catch block of trigger() caught
    resumeAfter,        \* options.resumeAfter (a string, or NoToken)
    lastSavedToken,     \* cache: serialized token of the last successful save
    lastSaveTime,       \* cache: Date.now() of the last successful save
    store,              \* the checkpoint collection: a set of records
    inflight,           \* resumeTokenChanged handlers awaiting replaceOne
    clock,              \* Date.now()
    reported,           \* stream position of the last token the stream reported
    notified,           \* history: tokens passed to resumeTokenChanged, in order
    hasEvent,           \* history: stream positions that carry a change event
    emitted,            \* history: records passed to this.emit, in order
    writeLog,           \* history: upserts applied to the checkpoint collection
    hist,               \* history: counters of calls, attempts and failures
    peer                \* another session of the node in the same process: the
                        \* variables its own call of trigger() declared

\* what no step of trigger() and its callbacks assigns: the parameters, the
\* deployment, and the variables of another call of trigger()
cfgVars   == <<saveFrequency, resumeFromDB, cfg, deployment, peer>>
connVars  == <<nodeConnection, connState, timer, waitPromise>>
closeVars == <<isClosing, closePc>>
strmVars  == <<changeStream, streamState, watch>>
ckptVars  == <<lastSavedToken, lastSaveTime, store, inflight, writeLog>>
evtVars   == <<reported, notified, hasEvent, emitted>>
vars == <<cfgVars, pc, connVars, closeVars, strmVars, startupError, resumeAfter,
          ckptVars, clock, evtVars, hist>>

----------------------------------------------------------------------------
(* Bounds of the model *)

\* token-changed notifications delivered in one session
MaxNotifs == 2
\* stream positions (distinct resume tokens) the source reports
MaxPos == 2
\* throttle intervals that pass during one session
MaxTicks == 1
\* calls of closeFunction made by the workflow engine
MaxCloseCalls == 2
\* errors the stream reports, and errors the connection reports
MaxErrors == 1

----------------------------------------------------------------------------
(* Program constants *)

\* the throttled_5s interval, in ms
ThrottleMs == 5000
\* one step of the clock: one throttle interval
TickMs == ThrottleMs
\* Date.now() when the session starts: later than one interval after the epoch
StartClock == 2 * ThrottleMs

SaveFrequencies == {"every_change", "smart", "throttled_5s"}

----------------------------------------------------------------------------
(* Values.  A JavaScript value is a record: an object token [_data |-> n], *)
(* a string whose text is the JSON text of value v, [json |-> v], a string *)
(* whose text is not JSON, [raw |-> n], and a missing token (null,         *)
(* undefined or '') as NoToken.                                            *)

NoToken == [none |-> TRUE]

Undefined == [undefined |-> TRUE]

Null == [null |-> TRUE]

\* the object {}
EmptyObject == [empty |-> TRUE]

\* a string that JSON.parse rejects
RawString(n) == [raw |-> n]

\* !!v
Truthy(v) == v \notin {NoToken, Undefined, Null}

\* o[f] of a JavaScript object: undefined when the field is missing
Get(o, f) == IF f \in DOMAIN o THEN o[f] ELSE Undefined

\* a || b
Or(a, b) == IF Truthy(a) THEN a ELSE b

\* new Date() at clock value ms
DateOf(ms) == [date |-> ms]

\* the resume token of stream position p, as the driver hands it over
ResumeToken(p) == [_data |-> p]

IsString(v) == "json" \in DOMAIN v \/ "raw" \in DOMAIN v

\* JSON.stringify(v)
Stringify(v) == [json |-> v]

\* typeof token === 'string' ? token : JSON.stringify(token)
TokenString(token) == IF IsString(token) THEN token ELSE Stringify(token)

\* stream position of a stored token
PosOf(token) == token._data

----------------------------------------------------------------------------
(* Parameters and the checkpoint key *)

\* the parameters of the node at their defaults, watching shop.orders
DefaultCfg ==
    [database |-> "shop", collection |-> "orders", resumeTokenKey |-> "",
     operationTypes |-> {"insert", "update", "delete", "replace"},
     matchFilter |-> {}, projection |-> {}, outputFormat |-> "full", debug |-> FALSE,
     startAtOperationTime |-> NoToken, watchLevel |-> "collection",
     resumeAfter |-> NoToken]

\* the modelled values of options.resumeTokenKey that contain '={{'
ExpressionKeys == {"={{ $json.key }}"}

\* `${database || 'default'}.${collection}`
AutoKey(database, collection) ==
    (IF database = "" THEN "default" ELSE database) \o "." \o collection

\* faulty variant: a generated key that leaves out the database
DeriveKey_collectionOnly(fromDB, optionKey, database, collection) ==
    IF fromDB /\ (optionKey = "" \/ optionKey \in ExpressionKeys \/ optionKey = "default")
    THEN collection
    ELSE optionKey

\* resumeTokenKey after the auto-generation test
DeriveKey(fromDB, optionKey, database, collection) ==
    IF fromDB /\ (optionKey = "" \/ optionKey \in ExpressionKeys \/ optionKey = "default")
    THEN AutoKey(database, collection)
    ELSE optionKey

\* resumeTokenKey of this session (capturedResumeTokenKey in the handlers)
ResumeTokenKey ==
    DeriveKey(resumeFromDB, cfg.resumeTokenKey, cfg.database, cfg.collection)

----------------------------------------------------------------------------
(* Change events, as the server produces them before the pipeline runs.    *)
(* Every event carries its resume token as _id, added on delivery.         *)

Document == [status |-> "new"]

DocumentKey == [_id |-> [oid |-> 7]]

UpdateDescription == [updatedFields |-> [status |-> "paid"]]

ClusterTime == [ts |-> "t1"]

InsertEvent ==
    [operationType |-> "insert", fullDocument |-> Document,
     documentKey |-> DocumentKey, clusterTime |-> ClusterTime]

\* an update without a looked-up document
UpdateEvent ==
    [operationType |-> "update", documentKey |-> DocumentKey,
     updateDescription |-> UpdateDescription, clusterTime |-> ClusterTime]

\* an update whose document was deleted before the lookup
UpdateLookupEvent ==
    [operationType |-> "update", fullDocument |-> Null, documentKey |-> DocumentKey,
     updateDescription |-> UpdateDescription, clusterTime |-> ClusterTime]

DeleteEvent ==
    [operationType |-> "delete", documentKey |-> DocumentKey,
     clusterTime |-> ClusterTime]

\* the collection was dropped: no document key
DropEvent == [operationType |-> "drop", clusterTime |-> ClusterTime]

RawEvents == {InsertEvent, UpdateEvent, UpdateLookupEvent, DeleteEvent, DropEvent}

----------------------------------------------------------------------------
(* Initial state: trigger() has read its parameters, nothing is connected. *)
(* The checkpoint collection is empty (first run) or holds the record an   *)
(* earlier session left for the key, at stream position 0.  The save       *)
(* frequency is an option shown only with resumeFromDB; without it the     *)
(* default 'smart' applies.                                                *)

NoCounts ==
    [closeCalls |-> 0, closeReturned |-> 0, streamCloseAttempts |-> 0,
     connCloseAttempts |-> 0, streamCloseFailed |-> 0, connCloseFailed |-> 0,
     connAttempts |-> 0, streamsCreated |-> 0, raised |-> 0, saveFailures |-> 0,
     lateConnected |-> 0, streamErrors |-> 0, connErrors |-> 0, loadKeys |-> {},
     pings |-> 0, reports |-> 0, loaded |-> {}]

Bump(h, f) == [h EXCEPT ![f] = @ + 1]

\* the _id the server gives the n-th document inserted into the collection,
\* counting from 0
ObjectId(n) == [oid |-> n]

CheckpointRecord(id, key, token, at) ==
    [_id |-> id, key |-> key, token |-> token, updatedAt |-> at]

\* the variables of another call of trigger()
PeerSession(at, connection, stream, closing, cache) ==
    [pc |-> at, nodeConnection |-> connection, changeStream |-> stream,
     isClosing |-> closing, lastSavedToken |-> cache]

\* no other session runs
NoPeer == PeerSession("absent", "null", "null", FALSE, NoToken)

\* the variables trigger() declares
Declared ==
    /\ nodeConnection = "null"
    /\ connState = "none"
    /\ changeStream = "null"
    /\ streamState = "none"
    /\ watch = NoToken
    /\ isClosing = FALSE
    /\ closePc = "idle"
    /\ timer = "unset"
    /\ waitPromise = "none"
    /\ startupError = "none"
    /\ lastSavedToken = NoToken
    /\ lastSaveTime = 0
    /\ inflight = {}
    /\ clock = StartClock
    /\ reported = 0
    /\ notified = <<>>
    /\ hasEvent = {}
    /\ emitted = <<>>
    /\ writeLog = <<>>
    /\ hist = NoCounts

\* trigger() has read its parameters and is about to create the connection
NotStarted ==
    /\ pc = "idle"
    /\ resumeAfter = cfg.resumeAfter
    /\ Declared

Init ==
    /\ peer = NoPeer
    /\ resumeFromDB \in BOOLEAN
    /\ saveFrequency \in IF resumeFromDB THEN SaveFrequencies ELSE {"smart"}
    /\ cfg = DefaultCfg
    /\ deployment = [changes |-> {InsertEvent}, uniqueKey |-> TRUE]
    /\ store \in {{}, {CheckpointRecord(ObjectId(0), AutoKey(cfg.database, cfg.collection),
                                        ResumeToken(0), 0)}}
    /\ NotStarted

----------------------------------------------------------------------------
(* closeFunction *)

\* faulty variant: the connection close is started first, whether or not a
\* stream exists
CloseFunctionEntry_closesConnFirst(h) ==
    IF isClosing
    THEN /\ UNCHANGED closeVars
         /\ hist' = Bump(h, "closeReturned")
    ELSE /\ isClosing' = TRUE
         /\ IF nodeConnection # "null"
            THEN /\ closePc' = "closeConn"
                 /\ hist' = Bump(h, "connCloseAttempts")
            ELSE /\ closePc' = "done"
                 /\ hist' = Bump(h, "closeReturned")

\* closeFunction up to its first await: the flag, then the first close call.
\* h is the counter record the caller has already updated.
CloseFunctionEntry(h) ==
    IF isClosing
    THEN /\ UNCHANGED closeVars
         /\ hist' = Bump(h, "closeReturned")
    ELSE /\ isClosing' = TRUE
         /\ IF changeStream # "null"
            THEN /\ closePc' = "stopStream"
                 /\ hist' = Bump(h, "streamCloseAttempts")
            ELSE IF nodeConnection # "null"
            THEN /\ closePc' = "closeConn"
                 /\ hist' = Bump(h, "connCloseAttempts")
            ELSE /\ closePc' = "done"
                 /\ hist' = Bump(h, "closeReturned")

\* closeFunction has returned to its caller.  In the catch block of trigger()
\* the caller then throws the NodeOperationError.
CloseFunctionReturns(h) ==
    IF pc = "cleanup"
    THEN /\ pc' = "failed"
         /\ hist' = Bump(Bump(h, "closeReturned"), "raised")
    ELSE /\ pc' = pc
         /\ hist' = Bump(h, "closeReturned")

\* faulty variant: a catch block that throws without running closeFunction
StartupFails_noCleanup(kind) ==
    /\ startupError' = kind
    /\ pc' = "failed"
    /\ hist' = Bump(hist, "raised")
    /\ UNCHANGED closeVars

\* the catch block of trigger(): await closeFunction(), then throw
StartupFails(kind) ==
    /\ startupError' = kind
    /\ pc' = "cleanup"
    /\ CloseFunctionEntry(Bump(hist, "closeCalls"))

\* the workflow engine calls the closeFunction that trigger() returned
CloseCall ==
    /\ pc = "active"
    /\ hist.closeCalls < MaxCloseCalls
    /\ CloseFunctionEntry(Bump(hist, "closeCalls"))
    /\ UNCHANGED <<cfgVars, pc, connVars, strmVars, startupError, resumeAfter,
                   ckptVars, clock, evtVars>>

\* changeStream.on('close'): a debug log, unless the session is closing
OnStreamClose(h) == IF ~ isClosing /\ cfg.debug THEN Bump(h, "reports") ELSE h

\* await changeStream.close() resolved: the stream emits 'close',
\* changeStream = null, then the connection close is called
StreamCloseOk ==
    /\ closePc = "stopStream"
    /\ streamState' = "closed"
    /\ changeStream' = "null"
    /\ watch' = watch
    /\ IF nodeConnection # "null"
       THEN /\ closePc' = "closeConn"
            /\ hist' = Bump(OnStreamClose(hist), "connCloseAttempts")
            /\ pc' = pc
       ELSE /\ closePc' = "done"
            /\ CloseFunctionReturns(OnStreamClose(hist))
    /\ UNCHANGED <<cfgVars, connVars, isClosing, startupError, resumeAfter,
                   ckptVars, clock, evtVars>>

\* await changeStream.close() rejected: the catch block logs and returns
StreamCloseFails ==
    /\ closePc = "stopStream"
    /\ closePc' = "done"
    /\ CloseFunctionReturns(Bump(hist, "streamCloseFailed"))
    /\ UNCHANGED <<cfgVars, connVars, isClosing, strmVars, startupError,
                   resumeAfter, ckptVars, clock, evtVars>>

\* await nodeConnection.close() resolved: nodeConnection = null
ConnCloseOk ==
    /\ closePc = "closeConn"
    /\ connState' = "closed"
    /\ nodeConnection' = "null"
    /\ closePc' = "done"
    /\ CloseFunctionReturns(hist)
    /\ UNCHANGED <<cfgVars, timer, waitPromise, isClosing, strmVars, startupError,
                   resumeAfter, ckptVars, clock, evtVars>>

\* await nodeConnection.close() rejected: the catch block logs and returns
ConnCloseFails ==
    /\ closePc = "closeConn"
    /\ closePc' = "done"
    /\ CloseFunctionReturns(Bump(hist, "connCloseFailed"))
    /\ UNCHANGED <<cfgVars, connVars, isClosing, strmVars, startupError,
                   resumeAfter, ckptVars, clock, evtVars>>

----------------------------------------------------------------------------
(* Startup: the parameters and the credentials *)

\* the elements of a sequence
Range(seq) == {seq[i] : i \in DOMAIN seq}

\* a string that is empty or holds white space only
Blank == [blank |-> TRUE]

\* an object given as a parameter value, with the set s as its content
Object(s) == [obj |-> s]

\* parseJsonParameter throws: the value is a string that is not JSON
JsonThrows(value) == "raw" \in DOMAIN value

\* parseJsonParameter, for a value on which it does not throw
ParseJsonParameter(value, defaultValue) ==
    IF value \in {Null, Undefined, Blank} THEN defaultValue
    ELSE IF "json" \in DOMAIN value THEN value.json
    ELSE value

\* validateAndResolveMultiDatabaseCredentials throws: no database is listed
\* in the credentials, or the requested one is not among those listed
ValidateThrows(credentials, requestedDatabase) ==
    \/ credentials.databases = << >>
    \/ requestedDatabase # "" /\ requestedDatabase \notin Range(credentials.databases)

\* getDatabaseForConnection, after the validation passed
GetDatabaseForConnection(credentials, requestedDatabase) ==
    IF requestedDatabase # "" THEN requestedDatabase
    ELSE IF credentials.defaultDatabase # "" THEN credentials.defaultDatabase
    ELSE credentials.databases[1]

\* the values trigger() works with once the parameters p are read
ResolvedCfg(p) ==
    [DefaultCfg EXCEPT
        !.database = GetDatabaseForConnection(p.credentials, p.database),
        !.collection = p.collection,
        !.watchLevel = p.watchLevel,
        !.operationTypes = p.operationTypes,
        !.matchFilter = ParseJsonParameter(p.matchFilter, Object({})).obj,
        !.projection = ParseJsonParameter(p.projection, Object({})).obj]

\* trigger() up to the try block: the parameters are read, the credentials
\* validated and the JSON parameters parsed; a throw here leaves trigger()
\* at once, as nothing encloses these lines
ReadParameters ==
    /\ pc = "start"
    /\ LET p == cfg.params IN
         IF \/ ValidateThrows(p.credentials, p.database)
            \/ JsonThrows(p.matchFilter)
            \/ JsonThrows(p.projection)
         THEN /\ pc' = "failed"
              /\ startupError' = "config"
              /\ hist' = Bump(hist, "raised")
              /\ cfg' = cfg
         ELSE /\ pc' = "idle"
              /\ cfg' = ("params" :> p) @@ ResolvedCfg(p)
              /\ UNCHANGED <<startupError, hist>>
    /\ UNCHANGED <<saveFrequency, resumeFromDB, deployment, peer, connVars,
                   closeVars, strmVars, resumeAfter, ckptVars, clock, evtVars>>

----------------------------------------------------------------------------
(* Startup: connect *)

\* mongoose.createConnection and the executor of the awaited promise
CreateConnection ==
    /\ pc = "idle"
    /\ nodeConnection' = "conn"
    /\ hist' = Bump(hist, "connAttempts")
    /\ \/ /\ connState' = "connected"        \* readyState === 1 already
          /\ timer' = "cleared"
          /\ waitPromise' = "resolved"
          /\ pc' = "verify"
       \/ /\ connState' = "connecting"
          /\ timer' = "armed"
          /\ waitPromise' = "pending"
          /\ pc' = "waitConnect"
    /\ UNCHANGED <<cfgVars, closeVars, strmVars, startupError, resumeAfter,
                   ckptVars, clock, evtVars>>

\* faulty variant: a 'connected' callback that continues startup although the wait
\* was already rejected
OnConnected_resumesAfterReject ==
    /\ connState = "connecting"
    /\ connState' = "connected"
    /\ timer' = IF timer = "armed" THEN "cleared" ELSE timer
    /\ waitPromise' = "resolved"
    /\ pc' = "verify"
    /\ hist' = IF waitPromise = "pending" THEN hist ELSE Bump(hist, "lateConnected")
    /\ UNCHANGED <<cfgVars, nodeConnection, closeVars, strmVars, startupError,
                   resumeAfter, ckptVars, clock, evtVars>>

\* the once('connected') callback: clearTimeout, resolve
OnConnected ==
    /\ connState = "connecting"
    /\ connState' = "connected"
    /\ timer' = IF timer = "armed" THEN "cleared" ELSE timer
    /\ IF waitPromise = "pending"
       THEN /\ waitPromise' = "resolved"
            /\ pc' = "verify"
            /\ hist' = hist
       ELSE /\ UNCHANGED <<waitPromise, pc>>
            /\ hist' = Bump(hist, "lateConnected")
    /\ UNCHANGED <<cfgVars, nodeConnection, closeVars, strmVars, startupError,
                   resumeAfter, ckptVars, clock, evtVars>>

\* the once('error') callback: clearTimeout, reject(error)
OnConnectError ==
    /\ connState = "connecting"
    /\ connState' = "errored"
    /\ timer' = IF timer = "armed" THEN "cleared" ELSE timer
    /\ IF waitPromise = "pending"
       THEN /\ waitPromise' = "rejected"
            /\ StartupFails("driver")
       ELSE /\ UNCHANGED <<waitPromise, pc, startupError, closeVars, hist>>
    /\ UNCHANGED <<cfgVars, nodeConnection, strmVars, resumeAfter,
                   ckptVars, clock, evtVars>>

\* the setTimeout callback: reject(new Error('... timeout after 30 seconds'))
OnTimeout ==
    /\ timer = "armed"
    /\ timer' = "fired"
    /\ IF waitPromise = "pending"
       THEN /\ waitPromise' = "rejected"
            /\ StartupFails("timeout")
       ELSE UNCHANGED <<waitPromise, pc, startupError, closeVars, hist>>
    /\ UNCHANGED <<cfgVars, nodeConnection, connState, strmVars, resumeAfter,
                   ckptVars, clock, evtVars>>

\* faulty variant: startup goes on to the subscription without the load
PingOk_skipsLoad ==
    /\ pc = "verify"
    /\ pc' = "subscribe"
    /\ hist' = Bump(hist, "pings")
    /\ UNCHANGED <<cfgVars, connVars, closeVars, strmVars, startupError,
                   resumeAfter, ckptVars, clock, evtVars>>

\* await nodeConnection.db.admin().ping() resolved
PingOk ==
    /\ pc = "verify"
    /\ pc' = IF resumeFromDB THEN "load" ELSE "subscribe"
    /\ hist' = Bump(hist, "pings")
    /\ UNCHANGED <<cfgVars, connVars, closeVars, strmVars, startupError,
                   resumeAfter, ckptVars, clock, evtVars>>

\* faulty variant: a failed ping is swallowed and startup goes on
PingFails_ignored ==
    /\ pc = "verify"
    /\ pc' = IF resumeFromDB THEN "load" ELSE "subscribe"
    /\ UNCHANGED <<cfgVars, connVars, closeVars, strmVars, startupError,
                   resumeAfter, ckptVars, clock, evtVars, hist>>

\* nodeConnection.db missing, or the ping rejected
PingFails ==
    /\ pc = "verify"
    /\ StartupFails("unavailable")
    /\ UNCHANGED <<cfgVars, connVars, strmVars, resumeAfter, ckptVars, clock,
                   evtVars>>

----------------------------------------------------------------------------
(* Startup: load the checkpoint, start the subscription *)

\* faulty variant: a configured resume token wins over the loaded one
LoadedResumeAfter_keepsManual(savedToken) ==
    IF Truthy(savedToken.token) /\ resumeAfter = NoToken
    THEN TokenString(savedToken.token) ELSE resumeAfter

\* options.resumeAfter after findOne returned savedToken
LoadedResumeAfter(savedToken) ==
    IF Truthy(savedToken.token) THEN TokenString(savedToken.token) ELSE resumeAfter

\* faulty variant: a load that throws when the key has no record
LoadCheckpoint_throwsOnAbsence ==
    /\ pc = "load"
    /\ IF \E r \in store : r.key = ResumeTokenKey
       THEN /\ \E savedToken \in {r \in store : r.key = ResumeTokenKey} :
                  resumeAfter' = LoadedResumeAfter(savedToken)
            /\ pc' = "subscribe"
            /\ hist' = [hist EXCEPT !.loadKeys = @ \cup {ResumeTokenKey}]
            /\ UNCHANGED <<closeVars, startupError>>
       ELSE /\ StartupFails("load")
            /\ resumeAfter' = resumeAfter
    /\ UNCHANGED <<cfgVars, connVars, strmVars, ckptVars, clock, evtVars>>

\* await collection.findOne({ key: resumeTokenKey }) resolved
LoadCheckpoint ==
    /\ pc = "load"
    /\ \/ \E savedToken \in {r \in store : r.key = ResumeTokenKey} :
              /\ resumeAfter' = LoadedResumeAfter(savedToken)
              /\ hist' = [hist EXCEPT !.loadKeys = @ \cup {ResumeTokenKey},
                                      !.loaded = {savedToken}]
       \/ /\ ~ \E r \in store : r.key = ResumeTokenKey
          /\ resumeAfter' = resumeAfter
          /\ hist' = [hist EXCEPT !.loadKeys = @ \cup {ResumeTokenKey}]
    /\ pc' = "subscribe"
    /\ UNCHANGED <<cfgVars, connVars, closeVars, strmVars, startupError, ckptVars,
                   clock, evtVars>>

\* faulty variant: a failed read of the checkpoint ends startup
LoadCheckpointFails_fatal ==
    /\ pc = "load"
    /\ StartupFails("load")
    /\ UNCHANGED <<cfgVars, connVars, strmVars, resumeAfter, ckptVars, clock,
                   evtVars>>

\* findOne rejected: the inner catch logs, startup goes on
LoadCheckpointFails ==
    /\ pc = "load"
    /\ pc' = "subscribe"
    /\ hist' = [hist EXCEPT !.loadKeys = @ \cup {ResumeTokenKey}]
    /\ UNCHANGED <<cfgVars, connVars, closeVars, strmVars, startupError, resumeAfter,
                   ckptVars, clock, evtVars>>

\* faulty variant: a pipeline that projects before it matches
BuildPipeline_projectsFirst(operationTypes, matchFilter, projection) ==
    (IF projection # {}
     THEN << [op |-> "$project", fields |-> projection] >> ELSE << >>)
    \o (IF operationTypes # {}
        THEN << [op |-> "$match", in |-> operationTypes] >> ELSE << >>)
    \o (IF matchFilter # {}
        THEN << [op |-> "$match", filter |-> matchFilter] >> ELSE << >>)

\* faulty variant: a pipeline without the operation-type match
BuildPipeline_noTypeMatch(operationTypes, matchFilter, projection) ==
    (IF matchFilter # {}
     THEN << [op |-> "$match", filter |-> matchFilter] >> ELSE << >>)
    \o (IF projection # {}
        THEN << [op |-> "$project", fields |-> projection] >> ELSE << >>)

\* the pipeline: the operation-type match, the user's match filter and the
\* projection, each only when its parameter is not empty
BuildPipeline(operationTypes, matchFilter, projection) ==
    (IF operationTypes # {}
     THEN << [op |-> "$match", in |-> operationTypes] >> ELSE << >>)
    \o (IF matchFilter # {}
        THEN << [op |-> "$match", filter |-> matchFilter] >> ELSE << >>)
    \o (IF projection # {}
        THEN << [op |-> "$project", fields |-> projection] >> ELSE << >>)

\* faulty variant: the loaded text is passed on without parsing
ParsedOrRaw_neverParses(text) == text

\* JSON.parse(text), or the text itself when parsing throws
ParsedOrRaw(text) == IF "json" \in DOMAIN text THEN text.json ELSE text

\* changeStreamOptions: resumeAfter and startAtOperationTime
ChangeStreamOptions(optResumeAfter, optStartAt) ==
    [resumeAfter |-> IF Truthy(optResumeAfter)
                     THEN ParsedOrRaw(optResumeAfter) ELSE Undefined,
     startAtOperationTime |-> IF Truthy(optStartAt)
                              THEN [dateOf |-> optStartAt] ELSE Undefined]

\* what watch() is called on: the model, the database, or else the connection
WatchTarget(watchLevel) ==
    IF watchLevel = "collection" THEN "collection"
    ELSE IF watchLevel = "database" THEN "database"
    ELSE "deployment"

\* faulty variant: the loaded token is not put into the cache
LoadedTokenString_notCached == NoToken

\* loadedTokenString, the initial value of lastSavedToken
LoadedTokenString ==
    IF resumeFromDB /\ resumeAfter # NoToken THEN resumeAfter ELSE NoToken

\* faulty variant: the time of the last save starts at the current time
Subscribe_startsThrottled ==
    /\ pc = "subscribe"
    /\ changeStream' = "stream"
    /\ streamState' = "open"
    /\ watch' = [pipeline |-> BuildPipeline(cfg.operationTypes, cfg.matchFilter,
                                            cfg.projection),
                 options |-> ChangeStreamOptions(resumeAfter,
                                                 cfg.startAtOperationTime),
                 target |-> WatchTarget(cfg.watchLevel)]
    /\ lastSavedToken' = LoadedTokenString
    /\ lastSaveTime' = clock
    /\ hist' = Bump(hist, "streamsCreated")
    /\ pc' = "active"
    /\ UNCHANGED <<cfgVars, connVars, closeVars, startupError, resumeAfter, store,
                   inflight, writeLog, clock, evtVars>>

\* faulty variant: watch() is called again on a session that already has a stream
Subscribe_resubscribes ==
    /\ pc \in {"subscribe", "active"}
    /\ hist.streamsCreated < 2
    /\ changeStream' = "stream"
    /\ streamState' = "open"
    /\ watch' = [pipeline |-> BuildPipeline(cfg.operationTypes, cfg.matchFilter,
                                            cfg.projection),
                 options |-> ChangeStreamOptions(resumeAfter,
                                                 cfg.startAtOperationTime),
                 target |-> WatchTarget(cfg.watchLevel)]
    /\ lastSavedToken' = LoadedTokenString
    /\ lastSaveTime' = 0
    /\ hist' = Bump(hist, "streamsCreated")
    /\ pc' = "active"
    /\ UNCHANGED <<cfgVars, connVars, closeVars, startupError, resumeAfter, store,
                   inflight, writeLog, clock, evtVars>>

\* watch() returned the stream; the handlers are registered and trigger()
\* returns closeFunction
Subscribe ==
    /\ pc = "subscribe"
    /\ changeStream' = "stream"
    /\ streamState' = "open"
    /\ watch' = [pipeline |-> BuildPipeline(cfg.operationTypes, cfg.matchFilter,
                                            cfg.projection),
                 options |-> ChangeStreamOptions(resumeAfter,
                                                 cfg.startAtOperationTime),
                 target |-> WatchTarget(cfg.watchLevel)]
    /\ lastSavedToken' = LoadedTokenString
    /\ lastSaveTime' = 0
    /\ hist' = Bump(hist, "streamsCreated")
    /\ pc' = "active"
    /\ UNCHANGED <<cfgVars, connVars, closeVars, startupError, resumeAfter, store,
                   inflight, writeLog, clock, evtVars>>

\* creating the model or calling watch() threw
SubscribeFails ==
    /\ pc = "subscribe"
    /\ StartupFails("subscribe")
    /\ UNCHANGED <<cfgVars, connVars, strmVars, resumeAfter, ckptVars, clock,
                   evtVars>>

----------------------------------------------------------------------------
(* The resumeTokenChanged handler *)

\* faulty variant: a guard that does not look at resumeFromDB
CanSave_ignoresResumeFromDB == nodeConnection # "null" /\ connState = "connected"

\* faulty variant: a guard that does not look at the connection
CanSave_ignoresConnection == resumeFromDB

\* capturedResumeFromDB && nodeConnection && nodeConnection.db
CanSave == resumeFromDB /\ nodeConnection # "null" /\ connState = "connected"

\* faulty variant: the comparison with the cache applies under every policy
SkipsSave_alwaysCompares(tokenString, now) ==
    \/ lastSavedToken = tokenString
    \/ saveFrequency = "throttled_5s" /\ (now - lastSaveTime) < ThrottleMs

\* the two skip tests of the handler, on tokenString and now
SkipsSave(tokenString, now) ==
    \/ saveFrequency = "smart" /\ lastSavedToken = tokenString
    \/ saveFrequency = "throttled_5s" /\ (now - lastSaveTime) < ThrottleMs

\* the handler up to `await collection.replaceOne(...)`: the inflight set
\* after notification number id with this token, Date.now() being now
OnResumeTokenChanged(id, token, now) ==
    IF CanSave /\ ~ SkipsSave(TokenString(token), now)
    THEN inflight \cup {[id |-> id, token |-> token,
                         tokenString |-> TokenString(token),
                         now |-> now, stage |-> "sent"]}
    ELSE inflight

\* replaceOne(filter, doc, {upsert: true}) on the collection: the possible
\* results.  A replaced document keeps its _id.
ReplaceOneUpsert(coll, key, doc) ==
    IF \E r \in coll : r.key = key
    THEN {(coll \ {r}) \cup {[doc EXCEPT !._id = r._id]} :
              r \in {x \in coll : x.key = key}}
    ELSE {coll \cup {doc}}

\* The result of an upsert whose query ran before a concurrent insert for the
\* same key became visible.  The code creates no index: only where the
\* deployment has a unique index on key does the server turn the second
\* insert into a replacement.
UpsertAfterRace(coll, key, doc) ==
    IF deployment.uniqueKey THEN ReplaceOneUpsert(coll, key, doc) ELSE {coll \cup {doc}}

\* The server applies the replaceOne of handler h.  When it inserts, the
\* upserts of other handlers still in flight may already have run their
\* query (stage "inserting").
WriteApplied ==
    \E h \in inflight :
        /\ h.stage \in {"sent", "inserting"}
        /\ LET doc == CheckpointRecord(ObjectId(Cardinality(store)), ResumeTokenKey,
                                       h.token, h.now)
               inserts == \/ h.stage = "inserting"
                          \/ ~ \E r \in store : r.key = ResumeTokenKey
           IN  /\ store' \in IF h.stage = "inserting"
                              THEN UpsertAfterRace(store, ResumeTokenKey, doc)
                              ELSE ReplaceOneUpsert(store, ResumeTokenKey, doc)
               /\ \E raced \in SUBSET {g \in inflight \ {h} : g.stage = "sent"} :
                     /\ raced # {} => (inserts /\ ~ deployment.uniqueKey)
                     /\ inflight' =
                            (inflight \ ({h} \cup raced))
                            \cup {[h EXCEPT !.stage = "applied"]}
                            \cup {[g EXCEPT !.stage = "inserting"] : g \in raced}
        /\ writeLog' = Append(writeLog, [id |-> h.id, key |-> ResumeTokenKey,
                                         token |-> h.token, updatedAt |-> h.now])
        /\ UNCHANGED <<cfgVars, pc, connVars, closeVars, strmVars, startupError,
                       resumeAfter, lastSavedToken, lastSaveTime, clock, evtVars, hist>>

\* the cache after the await of handler h resolved
CacheAfterSave(h) == <<h.tokenString, h.now>>

\* await replaceOne resolved: the handler updates its cache and returns
SaveResolves ==
    \E h \in inflight :
        /\ h.stage = "applied"
        /\ lastSavedToken' = CacheAfterSave(h)[1]
        /\ lastSaveTime' = CacheAfterSave(h)[2]
        /\ inflight' = inflight \ {h}
        /\ UNCHANGED <<cfgVars, pc, connVars, closeVars, strmVars, startupError,
                       resumeAfter, store, writeLog, clock, evtVars, hist>>

\* faulty variant: the cache is updated although the write failed
CacheAfterSaveError_updatesCache(h) == <<h.tokenString, h.now>>

\* the cache after the await of handler h rejected: the catch only logs
CacheAfterSaveError(h) == <<lastSavedToken, lastSaveTime>>

\* await replaceOne rejected
SaveRejects ==
    \E h \in inflight :
        /\ h.stage \in {"sent", "inserting"}
        /\ lastSavedToken' = CacheAfterSaveError(h)[1]
        /\ lastSaveTime' = CacheAfterSaveError(h)[2]
        /\ inflight' = inflight \ {h}
        /\ hist' = Bump(hist, "saveFailures")
        /\ UNCHANGED <<cfgVars, pc, connVars, closeVars, strmVars, startupError,
                       resumeAfter, store, writeLog, clock, evtVars>>

----------------------------------------------------------------------------
(* The change handler and the notifications of the stream *)

\* change.operationType || 'unknown'
OperationTypeOf(change) ==
    IF "operationType" \in DOMAIN change THEN change.operationType ELSE "unknown"

\* faulty variant: the simplified record without the defaults for missing fields
Simplified_noDefaults(change, now) ==
    [operationType |-> OperationTypeOf(change),
     documentKey |-> Get(change, "documentKey"),
     document |-> Get(change, "fullDocument"),
     updateDescription |-> Get(change, "updateDescription"),
     timestamp |-> Get(change, "clusterTime")]

\* outputData of the 'simplified' format
Simplified(change, now) ==
    [operationType |-> OperationTypeOf(change),
     documentKey |-> Or(Get(change, "documentKey"), EmptyObject),
     document |-> Or(Get(change, "fullDocument"), Null),
     updateDescription |-> Or(Get(change, "updateDescription"), Null),
     timestamp |-> Or(Get(change, "clusterTime"), DateOf(now))]

\* faulty variant: the 'document' format without its fallbacks
DocumentOf_noFallback(change) == Get(change, "fullDocument")

\* outputData of the 'document' format
DocumentOf(change) ==
    Or(Get(change, "fullDocument"), Or(Get(change, "documentKey"), EmptyObject))

\* outputData after the switch on outputFormat
Projected(outputFormat, change, now) ==
    CASE outputFormat = "document"   -> DocumentOf(change)
      [] outputFormat = "simplified" -> Simplified(change, now)
      [] OTHER                       -> Or(change, EmptyObject)

\* faulty variant: no fallbacks in the 'document' format and no null test
OutputData_bare(outputFormat, change, now) ==
    IF outputFormat = "document"
    THEN Get(change, "fullDocument")
    ELSE Projected(outputFormat, change, now)

\* outputData after the null test
OutputData(outputFormat, change, now) ==
    LET outputData == Projected(outputFormat, change, now)
    IN  IF outputData \in {Null, Undefined}
        THEN [operationType |-> OperationTypeOf(change), timestamp |-> DateOf(now),
              error |-> "No data available"]
        ELSE outputData

\* the record the catch block of the change handler emits
ProcessingError(now) ==
    [operationType |-> "error", error |-> "message", timestamp |-> DateOf(now),
     type |-> "processing_error"]

\* faulty variant: a catch block that logs the processing error and emits nothing
OnChange_silentOnError(p, change, now, throws) ==
    IF throws
    THEN emitted
    ELSE Append(emitted, [pos |-> p, data |-> OutputData(cfg.outputFormat, change, now)])

\* faulty variant: the record is emitted and then the error record as well
OnChange_emitsBoth(p, change, now, throws) ==
    IF throws
    THEN emitted \o << [pos |-> p, data |-> OutputData(cfg.outputFormat, change, now)],
                       [pos |-> p, data |-> ProcessingError(now)] >>
    ELSE Append(emitted, [pos |-> p, data |-> OutputData(cfg.outputFormat, change, now)])

\* the change handler: the records passed to this.emit so far.  When
\* processing throws, the catch block emits the error record instead.
OnChange(p, change, now, throws) ==
    IF throws
    THEN Append(emitted, [pos |-> p, data |-> ProcessingError(now)])
    ELSE Append(emitted, [pos |-> p, data |-> OutputData(cfg.outputFormat, change, now)])

\* the event of stream position p as the server hands it to the pipeline
ServerEvent(raw, p) == ("_id" :> ResumeToken(p)) @@ raw

\* one stage of the pipeline, run by the server on a set of events
RunStage(st, docs) ==
    IF "in" \in DOMAIN st
    THEN {d \in docs : d.operationType \in st.in}
    ELSE IF "filter" \in DOMAIN st
    THEN {d \in docs : \A c \in st.filter : c[1] \in DOMAIN d /\ d[c[1]] = c[2]}
    ELSE {[f \in DOMAIN d \cap (st.fields \cup {"_id"}) |-> d[f]] : d \in docs}

\* the events that leave the pipeline
RECURSIVE Aggregate(_, _)
Aggregate(pipeline, docs) ==
    IF Len(pipeline) = 0
    THEN docs
    ELSE Aggregate(Tail(pipeline), RunStage(Head(pipeline), docs))

\* The time that passed since the previous notification.  Date.now() is read
\* only on the save path of the resumeTokenChanged handler and decides
\* something only under throttled_5s, so the clock is advanced only there.
Elapsed ==
    IF resumeFromDB /\ saveFrequency = "throttled_5s"
       /\ clock < StartClock + MaxTicks * TickMs
    THEN {0, TickMs}
    ELSE {0}

\* the stream hands over the next change: the driver caches its resume token
\* (resumeTokenChanged) and emits 'change' in the same task
StreamReportsChange ==
    /\ pc = "active"
    /\ streamState = "open"
    /\ Len(notified) < MaxNotifs
    /\ reported < MaxPos
    /\ reported' = reported + 1
    /\ hasEvent' = hasEvent \cup {reported + 1}
    /\ notified' = Append(notified, ResumeToken(reported + 1))
    /\ \E dt \in Elapsed :
        /\ clock' = clock + dt
        /\ inflight' = OnResumeTokenChanged(Len(notified) + 1,
                                            ResumeToken(reported + 1), clock + dt)
    /\ \E raw \in deployment.changes :
         \E change \in Aggregate(watch.pipeline, {ServerEvent(raw, reported + 1)}) :
           \E throws \in BOOLEAN :
             emitted' = OnChange(reported + 1, change, clock', throws)
    /\ UNCHANGED <<cfgVars, pc, connVars, closeVars, strmVars, startupError,
                   resumeAfter, lastSavedToken, lastSaveTime, store, writeLog,
                   hist>>

\* a batch without a matching change: the stream reports the post-batch
\* token, the same as the last one or one past it
StreamReportsToken ==
    /\ pc = "active"
    /\ streamState = "open"
    /\ Len(notified) < MaxNotifs
    /\ \E p \in {q \in {reported, reported + 1} : q >= 1 /\ q <= MaxPos} :
        /\ reported' = p
        /\ notified' = Append(notified, ResumeToken(p))
        /\ \E dt \in Elapsed :
            /\ clock' = clock + dt
            /\ inflight' = OnResumeTokenChanged(Len(notified) + 1, ResumeToken(p),
                                                clock + dt)
    /\ UNCHANGED <<cfgVars, pc, connVars, closeVars, strmVars, startupError,
                   resumeAfter, lastSavedToken, lastSaveTime, store, writeLog,
                   hasEvent, emitted, hist>>

\* a batch without a change right after a resumed start: the stream reports
\* the token it was resumed after
StreamReportsResumePoint ==
    /\ pc = "active"
    /\ streamState = "open"
    /\ Len(notified) < MaxNotifs
    /\ reported = 0
    /\ "_data" \in DOMAIN watch.options.resumeAfter
    /\ notified' = Append(notified, watch.options.resumeAfter)
    /\ \E dt \in Elapsed :
        /\ clock' = clock + dt
        /\ inflight' = OnResumeTokenChanged(Len(notified) + 1,
                                            watch.options.resumeAfter, clock + dt)
    /\ UNCHANGED <<cfgVars, pc, connVars, closeVars, strmVars, startupError,
                   resumeAfter, lastSavedToken, lastSaveTime, store, writeLog,
                   reported, hasEvent, emitted, hist>>

\* a token notification that was already queued when the stream was
\* closed reaches the handler after the close
StreamReportsTokenLate ==
    /\ pc = "active"
    /\ streamState = "closed"
    /\ Len(notified) < MaxNotifs
    /\ \E p \in {q \in {reported, reported + 1} : q >= 1 /\ q <= MaxPos} :
        /\ reported' = p
        /\ notified' = Append(notified, ResumeToken(p))
        /\ \E dt \in Elapsed :
            /\ clock' = clock + dt
            /\ inflight' = OnResumeTokenChanged(Len(notified) + 1, ResumeToken(p),
                                                clock + dt)
    /\ UNCHANGED <<cfgVars, pc, connVars, closeVars, strmVars, startupError,
                   resumeAfter, lastSavedToken, lastSaveTime, store, writeLog,
                   hasEvent, emitted, hist>>

----------------------------------------------------------------------------
(* The error handlers *)

\* the record the stream's error handler emits in debug mode
StreamErrorRecord(now) ==
    [error |-> "message", type |-> "change_stream_error", timestamp |-> [iso |-> now]]

\* faulty variant: an error handler that shuts the session down
OnStreamError_closes ==
    /\ streamState = "open"
    /\ pc = "active"
    /\ hist.streamErrors < MaxErrors
    /\ emitted' = IF ~ isClosing /\ cfg.debug
                  THEN Append(emitted, [data |-> StreamErrorRecord(clock)])
                  ELSE emitted
    /\ CloseFunctionEntry(Bump(Bump(hist, "streamErrors"), "closeCalls"))
    /\ UNCHANGED <<cfgVars, pc, connVars, strmVars, startupError, resumeAfter,
                   ckptVars, clock, reported, notified, hasEvent>>

\* faulty variant: an error handler that calls watch() again
OnStreamError_resubscribes ==
    /\ streamState = "open"
    /\ pc = "active"
    /\ hist.streamErrors < MaxErrors
    /\ emitted' = IF ~ isClosing /\ cfg.debug
                  THEN Append(emitted, [data |-> StreamErrorRecord(clock)])
                  ELSE emitted
    /\ hist' = Bump(Bump(IF isClosing THEN hist ELSE Bump(hist, "reports"),
                         "streamErrors"), "streamsCreated")
    /\ UNCHANGED <<cfgVars, pc, connVars, closeVars, strmVars, startupError,
                   resumeAfter, ckptVars, clock, reported, notified, hasEvent>>

\* faulty variant: an error handler that does not look at the closing flag
OnStreamError_ignoresFlag ==
    /\ streamState = "open"
    /\ pc = "active"
    /\ hist.streamErrors < MaxErrors
    /\ emitted' = IF cfg.debug
                  THEN Append(emitted, [data |-> StreamErrorRecord(clock)])
                  ELSE emitted
    /\ hist' = Bump(Bump(hist, "streamErrors"), "reports")
    /\ UNCHANGED <<cfgVars, pc, connVars, closeVars, strmVars, startupError,
                   resumeAfter, ckptVars, clock, reported, notified, hasEvent>>

\* changeStream.on('error'): log, and in debug mode emit an error record,
\* unless the session is closing
OnStreamError ==
    /\ streamState = "open"
    /\ pc = "active"
    /\ hist.streamErrors < MaxErrors
    /\ emitted' = IF ~ isClosing /\ cfg.debug
                  THEN Append(emitted, [data |-> StreamErrorRecord(clock)])
                  ELSE emitted
    /\ hist' = IF isClosing THEN Bump(hist, "streamErrors")
               ELSE Bump(Bump(hist, "streamErrors"), "reports")
    /\ UNCHANGED <<cfgVars, pc, connVars, closeVars, strmVars, startupError,
                   resumeAfter, ckptVars, clock, reported, notified, hasEvent>>

\* nodeConnection.on('error'): log, unless the session is closing
OnConnectionError ==
    /\ connState = "connected"
    /\ pc = "active"
    /\ hist.connErrors < MaxErrors
    /\ hist' = IF isClosing THEN Bump(hist, "connErrors")
               ELSE Bump(Bump(hist, "connErrors"), "reports")
    /\ UNCHANGED <<cfgVars, pc, connVars, closeVars, strmVars, startupError,
                   resumeAfter, ckptVars, clock, evtVars>>

----------------------------------------------------------------------------

Next ==
    \/ CreateConnection
    \/ OnConnected
    \/ OnConnectError
    \/ OnTimeout
    \/ PingOk
    \/ PingFails
    \/ LoadCheckpoint
    \/ LoadCheckpointFails
    \/ Subscribe
    \/ SubscribeFails
    \/ StreamReportsChange
    \/ StreamReportsToken
    \/ WriteApplied
    \/ SaveResolves
    \/ SaveRejects
    \/ CloseCall
    \/ StreamCloseOk
    \/ StreamCloseFails
    \/ ConnCloseOk
    \/ ConnCloseFails

Spec == Init /\ [][Next]_vars

----------------------------------------------------------------------------
(* Sessions that resume from a checkpoint.  The parameters that decide the  *)
(* checkpoint key and the start position vary, the checkpoint collection    *)
(* holds what an earlier save left for the key (a token of any kind, or a   *)
(* record without a token), and startup and the writes succeed.             *)

\* tokens an earlier save may have stored: an object, its JSON text, a string
\* that is not JSON, the JSON text of such a string, and no token
SavedTokens ==
    {ResumeToken(0), Stringify(ResumeToken(0)), RawString(0),
     Stringify(RawString(0)), NoToken}

ResumeCfgs ==
    {[DefaultCfg EXCEPT !.database = d, !.collection = c, !.resumeTokenKey = k,
                        !.startAtOperationTime = t] :
        d \in {"shop", "crm"}, c \in {"orders", "users"},
        k \in {"", "default", "orders-key"} \cup ExpressionKeys,
        t \in {NoToken, [iso |-> "2024-01-01T00:00:00Z"]}}

ResumeInit ==
    /\ peer = NoPeer
    /\ resumeFromDB = TRUE
    /\ saveFrequency = "every_change"
    /\ cfg \in ResumeCfgs
    /\ deployment = [changes |-> {InsertEvent}, uniqueKey |-> TRUE]
    /\ \E others \in SUBSET {CheckpointRecord(ObjectId(0), "other-key",
                                               ResumeToken(0), 0)} :
         store \in {others}
                   \cup {others \cup {CheckpointRecord(ObjectId(Cardinality(others)),
                                                       ResumeTokenKey, t, 0)} :
                           t \in SavedTokens}
    /\ NotStarted

ResumeNext ==
    \/ CreateConnection
    \/ OnConnected
    \/ PingOk
    \/ LoadCheckpoint
    \/ LoadCheckpointFails
    \/ Subscribe
    \/ StreamReportsChange
    \/ StreamReportsToken
    \/ WriteApplied
    \/ SaveResolves

ResumeSpec == ResumeInit /\ [][ResumeNext]_vars

----------------------------------------------------------------------------
(* Sessions without checkpointing that deliver events.  The output format,  *)
(* the operation types, the projection and the debug option vary, and so    *)
(* does the kind of change the deployment produces; startup succeeds.       *)

EventCfgs ==
    {[DefaultCfg EXCEPT !.outputFormat = f, !.operationTypes = o,
                        !.projection = pr, !.debug = dbg] :
        f \in {"full", "document", "simplified"},
        o \in {{}, {"insert"}, DefaultCfg.operationTypes},
        pr \in {{}, {"fullDocument"}, {"operationType", "documentKey"}},
        dbg \in BOOLEAN}

EventInit ==
    /\ peer = NoPeer
    /\ resumeFromDB = FALSE
    /\ saveFrequency = "smart"
    /\ cfg \in EventCfgs
    /\ deployment \in {[changes |-> {e}, uniqueKey |-> TRUE] : e \in RawEvents}
    /\ store = {}
    /\ NotStarted

EventNext ==
    \/ CreateConnection
    \/ OnConnected
    \/ PingOk
    \/ Subscribe
    \/ StreamReportsChange
    \/ StreamReportsToken
    \/ CloseCall
    \/ StreamCloseOk
    \/ ConnCloseOk

EventSpec == EventInit /\ [][EventNext]_vars

----------------------------------------------------------------------------
(* Sessions on a deployment whose checkpoint collection has no unique       *)
(* index on key: the state the code leaves a fresh deployment in.           *)

UpsertInit ==
    /\ peer = NoPeer
    /\ resumeFromDB = TRUE
    /\ saveFrequency \in SaveFrequencies
    /\ cfg = DefaultCfg
    /\ deployment = [changes |-> {InsertEvent}, uniqueKey |-> FALSE]
    /\ store \in {{}, {CheckpointRecord(ObjectId(0), ResumeTokenKey, ResumeToken(0), 0)}}
    /\ NotStarted

UpsertSpec == UpsertInit /\ [][Next]_vars

----------------------------------------------------------------------------
(* Startup from the parameters as the user entered them: the database, the  *)
(* collection, the watch level, the filter and the projection vary, and so  *)
(* do the databases the credentials list.  The session is followed until    *)
(* it is active or has failed.                                              *)

\* values of a JSON parameter: not set, blank, an object, the JSON text of
\* an object, a text that is not JSON
JsonParams(s) == {Undefined, Blank, Object(s), Stringify(Object(s)), RawString(1)}

ConfigParams ==
    [database : {"", "shop", "hr"},
     collection : {"orders", ""},
     watchLevel : {"collection", "database", "deployment", "cluster"},
     operationTypes : {{}, {"insert", "update"}},
     matchFilter : JsonParams({<<"operationType", "insert">>}),
     projection : JsonParams({"fullDocument"}),
     credentials : {[databases |-> << >>, defaultDatabase |-> ""],
                    [databases |-> <<"shop", "crm">>, defaultDatabase |-> ""],
                    [databases |-> <<"shop", "crm">>, defaultDatabase |-> "crm"]}]

ConfigInit ==
    /\ peer = NoPeer
    /\ resumeFromDB = FALSE
    /\ saveFrequency = "smart"
    /\ cfg \in {[params |-> p] : p \in ConfigParams}
    /\ deployment = [changes |-> {InsertEvent}, uniqueKey |-> TRUE]
    /\ store = {}
    /\ pc = "start"
    /\ resumeAfter = NoToken
    /\ Declared

ConfigNext ==
    \/ ReadParameters
    \/ CreateConnection
    \/ OnConnected
    \/ OnConnectError
    \/ OnTimeout
    \/ PingOk
    \/ PingFails
    \/ Subscribe
    \/ SubscribeFails
    \/ ConnCloseOk
    \/ ConnCloseFails

ConfigSpec == ConfigInit /\ [][ConfigNext]_vars

----------------------------------------------------------------------------
(* Two sessions in one process.  The other session is a second call of     *)
(* trigger(): it creates its own connection, starts its own stream, caches *)
(* a saved token, and is closed or fails at startup, at any time.          *)

\* faulty variant: the closing flag is one variable for all sessions
PeerStep_sharedClosingFlag ==
    /\ \/ /\ peer.pc = "idle"
          /\ peer' = PeerSession("connecting", "conn", "null", FALSE, NoToken)
          /\ isClosing' = isClosing
       \/ /\ peer.pc = "connecting"
          /\ \/ /\ peer' = PeerSession("active", "conn", "stream", FALSE, NoToken)
                /\ isClosing' = isClosing
             \/ /\ peer' = PeerSession("failed", "null", "null", TRUE, NoToken)
                /\ isClosing' = TRUE
       \/ /\ peer.pc = "active"
          /\ \/ /\ peer.lastSavedToken = NoToken
                /\ peer' = [peer EXCEPT !.lastSavedToken = Stringify(ResumeToken(1))]
                /\ isClosing' = isClosing
             \/ /\ peer' = PeerSession("closed", "null", "null", TRUE,
                                       peer.lastSavedToken)
                /\ isClosing' = TRUE
    /\ UNCHANGED <<saveFrequency, resumeFromDB, cfg, deployment, pc, connVars,
                   closePc, strmVars, startupError, resumeAfter, ckptVars, clock,
                   evtVars, hist>>

\* a step of the other session: createConnection; watch() or the catch
\* block with its closeFunction; a successful save; closeFunction
PeerStep ==
    /\ \/ /\ peer.pc = "idle"
          /\ peer' = PeerSession("connecting", "conn", "null", FALSE, NoToken)
       \/ /\ peer.pc = "connecting"
          /\ \/ peer' = PeerSession("active", "conn", "stream", FALSE, NoToken)
             \/ peer' = PeerSession("failed", "null", "null", TRUE, NoToken)
       \/ /\ peer.pc = "active"
          /\ \/ /\ peer.lastSavedToken = NoToken
                /\ peer' = [peer EXCEPT !.lastSavedToken = Stringify(ResumeToken(1))]
             \/ peer' = PeerSession("closed", "null", "null", TRUE,
                                    peer.lastSavedToken)
    /\ UNCHANGED <<saveFrequency, resumeFromDB, cfg, deployment, pc, connVars,
                   closeVars, strmVars, startupError, resumeAfter, ckptVars, clock,
                   evtVars, hist>>

PeerInit ==
    /\ peer = PeerSession("idle", "null", "null", FALSE, NoToken)
    /\ resumeFromDB = TRUE
    /\ saveFrequency = "smart"
    /\ cfg = DefaultCfg
    /\ deployment = [changes |-> {InsertEvent}, uniqueKey |-> TRUE]
    /\ store = {}
    /\ NotStarted

PeerNext ==
    \/ Next
    \/ PeerStep

PeerSpec == PeerInit /\ [][PeerNext]_vars

----------------------------------------------------------------------------
(* A session without checkpointing in which startup and the close calls    *)
(* may fail, and in which the stream and the connection report errors      *)
(* while the session runs.                                                 *)

ErrorInit ==
    /\ peer = NoPeer
    /\ resumeFromDB = FALSE
    /\ saveFrequency = "smart"
    /\ cfg \in {DefaultCfg, [DefaultCfg EXCEPT !.debug = TRUE]}
    /\ deployment = [changes |-> {InsertEvent}, uniqueKey |-> TRUE]
    /\ store = {}
    /\ NotStarted

ErrorNext ==
    \/ CreateConnection
    \/ OnConnected
    \/ OnConnectError
    \/ OnTimeout
    \/ PingOk
    \/ PingFails
    \/ Subscribe
    \/ SubscribeFails
    \/ StreamReportsChange
    \/ StreamReportsToken
    \/ OnStreamError
    \/ OnConnectionError
    \/ CloseCall
    \/ StreamCloseOk
    \/ StreamCloseFails
    \/ ConnCloseOk
    \/ ConnCloseFails

ErrorSpec == ErrorInit /\ [][ErrorNext]_vars

----------------------------------------------------------------------------
(* Sessions under the smart policy that start where an earlier run         *)
(* stopped: a resume token may be configured by hand, the checkpoint       *)
(* collection may hold a record for the key, the read of it may fail, and  *)
(* the stream may first report the token it was resumed after.             *)

\* a resume token configured in the options: none, or the JSON text of a
\* token older than any stored one
ManualTokens == {NoToken, Stringify(ResumeToken(0 - 1))}

LoadInit ==
    /\ peer = NoPeer
    /\ resumeFromDB = TRUE
    /\ saveFrequency = "smart"
    /\ cfg \in {[DefaultCfg EXCEPT !.resumeAfter = t] : t \in ManualTokens}
    /\ deployment = [changes |-> {InsertEvent}, uniqueKey |-> TRUE]
    /\ store \in {{}} \cup {{CheckpointRecord(ObjectId(0), ResumeTokenKey, t, 0)} :
                               t \in SavedTokens}
    /\ NotStarted

LoadNext ==
    \/ CreateConnection
    \/ OnConnected
    \/ PingOk
    \/ LoadCheckpoint
    \/ LoadCheckpointFails
    \/ Subscribe
    \/ StreamReportsResumePoint
    \/ StreamReportsChange
    \/ StreamReportsToken
    \/ WriteApplied
    \/ SaveResolves

LoadSpec == LoadInit /\ [][LoadNext]_vars

----------------------------------------------------------------------------
(* Sessions with checkpointing that are closed while the stream still has   *)
(* token notifications to deliver; the close calls may fail.                *)

CloseInit ==
    /\ peer = NoPeer
    /\ resumeFromDB = TRUE
    /\ saveFrequency \in {"every_change", "smart"}
    /\ cfg = DefaultCfg
    /\ deployment = [changes |-> {InsertEvent}, uniqueKey |-> TRUE]
    /\ store = {}
    /\ NotStarted

CloseNext ==
    \/ CreateConnection
    \/ OnConnected
    \/ PingOk
    \/ LoadCheckpoint
    \/ Subscribe
    \/ StreamReportsToken
    \/ StreamReportsTokenLate
    \/ WriteApplied
    \/ SaveResolves
    \/ CloseCall
    \/ StreamCloseOk
    \/ StreamCloseFails
    \/ ConnCloseOk
    \/ ConnCloseFails

CloseSpec == CloseInit /\ [][CloseNext]_vars

----------------------------------------------------------------------------
(* Properties *)

\* all token handlers have returned
Quiescent == inflight = {}

\* the positions at which a record was emitted
EmittedPositions ==
    {emitted[i].pos : i \in {j \in DOMAIN emitted : "pos" \in DOMAIN emitted[j]}}

\* every call of closeFunction has returned
AllCloseCallsReturned == hist.closeCalls > 0 /\ hist.closeReturned = hist.closeCalls

\* C1: under the smart policy, two consecutive token-changed notifications
\* with identically serialized tokens result in exactly one upsert when all
\* writes succeed, whatever the interleaving of the handlers.
C1_SmartIdenticalTokensOneUpsert ==
    ( /\ resumeFromDB /\ saveFrequency = "smart"
      /\ Len(notified) = 2
      /\ TokenString(notified[1]) = TokenString(notified[2])
      /\ Quiescent /\ hist.saveFailures = 0 /\ ~ isClosing )
    => Len(writeLog) = 1

\* C2: under the throttled policy no two checkpoint writes for the key are
\* persisted less than the interval apart (measured by the updatedAt the
\* records carry).
C2_ThrottledWritesSpaced ==
    saveFrequency = "throttled_5s" =>
        \A i, j \in DOMAIN writeLog :
            i < j => \/ writeLog[j].updatedAt - writeLog[i].updatedAt >= ThrottleMs
                     \/ writeLog[i].updatedAt - writeLog[j].updatedAt >= ThrottleMs

\* C3: the persisted token is never replaced by a token the stream reported
\* earlier than the one already persisted.
C3_CheckpointNeverOlder ==
    \A i, j \in DOMAIN writeLog :
        i < j => PosOf(writeLog[i].token) <= PosOf(writeLog[j].token)

\* C4: the token in the checkpoint record never lies beyond a change event
\* for which no record has been emitted to the workflow.
C4_CheckpointNotBeyondUnemitted ==
    \A r \in store : \A p \in hasEvent :
        p <= PosOf(r.token) => p \in EmittedPositions

\* C4 witness: a token of a position that carries a change event is
\* persisted, and the event was emitted.
C4_Witness ==
    \E r \in store : PosOf(r.token) \in hasEvent /\ PosOf(r.token) \in EmittedPositions

\* C5: a failed checkpoint write is treated as skipped: the step in which the
\* handler catches the failure leaves lastSavedToken, lastSaveTime, the
\* session state, the stream, the connection and the store unchanged and
\* raises nothing, so the skip tests still let the same token through.
C5_FailedWriteIsSkipped ==
    [][ hist'.saveFailures > hist.saveFailures =>
          /\ lastSavedToken' = lastSavedToken
          /\ lastSaveTime' = lastSaveTime
          /\ pc' = pc /\ isClosing' = isClosing
          /\ strmVars' = strmVars /\ connVars' = connVars
          /\ store' = store
          /\ hist'.raised = hist.raised ]_vars

\* C5 witness: the write of the first notification failed, the session is
\* still active with its stream open, and the second notification, with the
\* same token, was written.
C5_Witness ==
    /\ saveFrequency = "smart" /\ hist.saveFailures = 1
    /\ pc = "active" /\ streamState = "open" /\ ~ isClosing /\ hist.raised = 0
    /\ Len(notified) = 2 /\ notified[1] = notified[2]
    /\ Quiescent
    /\ Len(writeLog) = 1 /\ writeLog[1].id = 2

\* C6: when stopping the change stream throws during shutdown, closing the
\* connection is still attempted.
C6_BothCloseStepsAttempted ==
    (closePc = "done" /\ hist.streamCloseFailed > 0) => hist.connCloseAttempts > 0

\* C7: once every call of close() has returned (and the connection close
\* itself did not fail), no call has raised, the stream and the connection
\* were each closed at most once and the session holds no open stream or
\* connection.
C7_CloseIdempotentNoLeak ==
    (AllCloseCallsReturned /\ closePc = "done" /\ hist.connCloseFailed = 0) =>
        /\ hist.streamCloseAttempts <= 1 /\ hist.connCloseAttempts <= 1
        /\ streamState # "open"
        /\ connState \notin {"connecting", "connected"}

\* C8: a resumeTokenChanged handler in flight when close() is requested
\* finishes before the connection is closed.
C8_HandlersFinishBeforeConnCloses ==
    connState = "closed" => Quiescent

\* C9: when the connection timer fires, startup fails with the timeout error
\* and no subscription is ever created, also when 'connected' arrives later.
C9_TimeoutFailsStartup ==
    timer = "fired" =>
        /\ startupError = "timeout"
        /\ pc \in {"cleanup", "failed"}
        /\ hist.streamsCreated = 0 /\ changeStream = "null" /\ streamState = "none"
        /\ pc = "failed" => hist.raised = 1

\* C9 witness: the timer fired, 'connected' arrived afterwards, and startup
\* has failed.
C9_Witness ==
    timer = "fired" /\ hist.lateConnected > 0 /\ pc = "failed"

\* C10 as claimed: after any startup failure the connection and any created
\* stream are closed and exactly one failure is raised.
C10_StartupFailureClosesAll ==
    pc = "failed" =>
        /\ connState = "closed"
        /\ streamState # "open"
        /\ hist.raised = 1

\* C10 amended: a startup failure surfaces only after closeFunction has run
\* to completion: closing the connection was attempted exactly once, no
\* stream exists, the connection is closed unless that close call itself
\* failed, and exactly one failure is raised.
C10_StartupFailureRunsCleanup ==
    /\ pc # "failed" => hist.raised = 0
    /\ pc = "failed" =>
        /\ hist.raised = 1
        /\ isClosing /\ closePc = "done"
        /\ hist.connCloseAttempts = 1
        /\ changeStream = "null" /\ streamState = "none"
        /\ hist.connCloseFailed = 0 => (connState = "closed" /\ nodeConnection = "null")

\* C10 witness: the ping failed, the connection was closed, the failure raised.
C10_Witness ==
    pc = "failed" /\ startupError = "unavailable" /\ connState = "closed"

\* C11: when a checkpoint token was loaded and a start timestamp is
\* configured, the stream options carry the token as resumeAfter and no
\* startAtOperationTime.
C11_TokenPrecedesStartTime ==
    (pc = "active" /\ Truthy(resumeAfter) /\ Truthy(cfg.startAtOperationTime)) =>
        /\ watch.options.resumeAfter # Undefined
        /\ watch.options.startAtOperationTime = Undefined

\* the record the startup load found for the key, while no write of this
\* session has replaced it
LoadedRecords ==
    IF pc = "active" /\ writeLog = << >> /\ Truthy(resumeAfter)
    THEN {r \in store : r.key = ResumeTokenKey /\ Truthy(r.token)}
    ELSE {}

C13_ExcludedKindsNotEmitted ==
    (\A e \in deployment.changes : e.operationType \notin cfg.operationTypes) =>
        EmittedPositions = {}

\* C13 amended: with a non-empty operationTypes, an event whose operation
\* kind is not in it never reaches the emit step.
C13_ExcludedKindsNotEmittedNonEmpty ==
    ( /\ cfg.operationTypes # {}
      /\ \A e \in deployment.changes : e.operationType \notin cfg.operationTypes ) =>
        EmittedPositions = {}

\* C13 witness: the session watches inserts only, the deployment produced
\* two deletes, and nothing was emitted.
C13_Witness ==
    /\ cfg.operationTypes = {"insert"} /\ deployment.changes = {DeleteEvent}
    /\ pc = "active" /\ reported = 2 /\ emitted = << >>

\* a record of the catch block of the change handler
IsProcessingError(rec) == "type" \in DOMAIN rec /\ rec.type = "processing_error"

\* C14: a change notification adds exactly one record to the emitted
\* records, the projected record or the processing_error record, and leaves
\* the session, its stream and its connection as they were.
C14_OneRecordPerChange ==
    [][ hasEvent' # hasEvent =>
          /\ Len(emitted') = Len(emitted) + 1
          /\ SubSeq(emitted', 1, Len(emitted)) = emitted
          /\ emitted'[Len(emitted')].pos \in hasEvent' \ hasEvent
          /\ pc' = pc /\ closeVars' = closeVars
          /\ strmVars' = strmVars /\ connVars' = connVars
          /\ hist'.raised = hist.raised ]_vars

\* C14 witness: processing the first event threw and its error record was
\* emitted; the second event was emitted normally by the active session.
C14_Witness ==
    /\ Len(emitted) = 2
    /\ IsProcessingError(emitted[1].data) /\ emitted[1].pos = 1
    /\ ~ IsProcessingError(emitted[2].data) /\ emitted[2].pos = 2
    /\ pc = "active" /\ streamState = "open" /\ ~ isClosing

\* C15: no emitted record is null or undefined, whatever the output format
\* and whichever fields the event lacks.
C15_EmittedNeverNull ==
    \A i \in DOMAIN emitted : emitted[i].data \notin {Null, Undefined}

\* C15 witness: in the 'document' format an event without fullDocument and
\* documentKey was emitted as the empty mapping.
C15_Witness ==
    /\ cfg.outputFormat = "document" /\ deployment.changes = {DropEvent}
    /\ \E i \in DOMAIN emitted : emitted[i].data = EmptyObject

\* the events the change handler may have received at stream position p
Delivered(p) ==
    UNION {Aggregate(watch.pipeline, {ServerEvent(e, p)}) : e \in deployment.changes}

\* field f of the event is there and not null
Present(change, f) == f \in DOMAIN change /\ change[f] \notin {Null, Undefined}

\* the values Date.now() may have had
Times == {StartClock + k * TickMs : k \in 0..MaxTicks}

\* the records emitted for change events that were processed without error
NormalRecords ==
    {emitted[i] : i \in {j \in DOMAIN emitted :
                            /\ "pos" \in DOMAIN emitted[j]
                            /\ ~ IsProcessingError(emitted[j].data)}}

\* C16: in the 'simplified' format the record has exactly the fields
\* operationType, documentKey, document, updateDescription and timestamp;
\* document is the event's fullDocument or null, updateDescription the
\* event's or null, timestamp the event's clusterTime or the current time.
C16_SimplifiedShape ==
    cfg.outputFormat = "simplified" =>
        \A r \in NormalRecords : \E change \in Delivered(r.pos) :
            /\ DOMAIN r.data = {"operationType", "documentKey", "document",
                                "updateDescription", "timestamp"}
            /\ "operationType" \in DOMAIN change =>
                   r.data.operationType = change.operationType
            /\ Present(change, "documentKey") =>
                   r.data.documentKey = change.documentKey
            /\ r.data.document =
                   IF Present(change, "fullDocument") THEN change.fullDocument ELSE Null
            /\ r.data.updateDescription =
                   IF Present(change, "updateDescription")
                   THEN change.updateDescription ELSE Null
            /\ IF Present(change, "clusterTime")
               THEN r.data.timestamp = change.clusterTime
               ELSE r.data.timestamp \in {DateOf(t) : t \in Times}

\* C16 witness: watching inserts only, the insert of {status: "new"} was
\* emitted as the simplified record with updateDescription null.
C16_Witness ==
    /\ cfg.outputFormat = "simplified" /\ cfg.operationTypes = {"insert"}
    /\ cfg.projection = {}
    /\ Len(emitted) = 1
    /\ emitted[1].data = [operationType |-> "insert", documentKey |-> DocumentKey,
                          document |-> Document, updateDescription |-> Null,
                          timestamp |-> ClusterTime]

\* C17: in the 'document' format the record is the event's fullDocument if
\* present, otherwise its documentKey, otherwise an empty mapping.
C17_DocumentFallbacks ==
    cfg.outputFormat = "document" =>
        \A r \in NormalRecords : \E change \in Delivered(r.pos) :
            r.data = IF Present(change, "fullDocument") THEN change.fullDocument
                     ELSE IF Present(change, "documentKey") THEN change.documentKey
                     ELSE EmptyObject

\* C17 witness: an update without a looked-up document was emitted as its
\* documentKey.
C17_Witness ==
    /\ cfg.outputFormat = "document" /\ deployment.changes = {UpdateEvent}
    /\ \E r \in NormalRecords : r.data = DocumentKey

\* C18: a step in which the stream or the connection reports an error leaves
\* the session active, the closing flag, the stream and the connection as
\* they were, and starts no close.
C18_ErrorsDoNotTerminate ==
    [][ (hist'.streamErrors > hist.streamErrors \/ hist'.connErrors > hist.connErrors) =>
          /\ pc' = pc /\ closeVars' = closeVars
          /\ strmVars' = strmVars /\ connVars' = connVars
          /\ hist'.closeCalls = hist.closeCalls
          /\ hist'.streamCloseAttempts = hist.streamCloseAttempts
          /\ hist'.connCloseAttempts = hist.connCloseAttempts
          /\ hist'.raised = hist.raised ]_vars

\* C18 witness: the stream and the connection each reported an error, the
\* session is still active and not closing, and a change that came
\* afterwards was emitted.
C18_Witness ==
    /\ hist.streamErrors = 1 /\ hist.connErrors = 1 /\ hist.closeCalls = 0
    /\ pc = "active" /\ ~ isClosing
    /\ streamState = "open" /\ connState = "connected"
    /\ Len(emitted) = 2
    /\ "pos" \notin DOMAIN emitted[1] /\ "pos" \in DOMAIN emitted[2]

\* C19: the checkpoint collection holds at most one record per key.
C19_OneRecordPerKey ==
    \A r1, r2 \in store : r1.key = r2.key => r1 = r2

\* the values of options.resumeTokenKey that count as not configured
Unconfigured == {"", "default"} \cup ExpressionKeys

\* C20: without a configured checkpoint key, the key queried at startup and
\* the key of every save is '<database>.<collection>'.
C20_DerivedKeyStable ==
    (resumeFromDB /\ cfg.resumeTokenKey \in Unconfigured) =>
        LET key == cfg.database \o "." \o cfg.collection
        IN  /\ hist.loadKeys \subseteq {key}
            /\ \A i \in DOMAIN writeLog : writeLog[i].key = key
            /\ \A i \in DOMAIN writeLog :
                   \E r \in store : r.key = key /\ r.token \in Range(notified)

\* C20 witness: a session on crm.users without a configured key loaded with
\* the key "crm.users" and saved twice under it.
C20_Witness ==
    /\ cfg.resumeTokenKey = "" /\ cfg.database = "crm" /\ cfg.collection = "users"
    /\ hist.loadKeys = {"crm.users"}
    /\ Len(writeLog) = 2
    /\ \A i \in DOMAIN writeLog : writeLog[i].key = "crm.users"

C24_PingGuardsStartup ==
    /\ hist.pings > 0 => waitPromise = "resolved"
    /\ (pc \in {"load", "subscribe", "active"} \/ hist.loadKeys # {}
          \/ hist.streamsCreated > 0) =>
           (hist.pings = 1 /\ startupError # "unavailable")
    /\ startupError = "unavailable" =>
           /\ pc \in {"cleanup", "failed"}
           /\ hist.pings = 0 /\ hist.loadKeys = {} /\ hist.streamsCreated = 0
           /\ changeStream = "null"
           /\ pc = "failed" => hist.raised = 1

\* C24 witness: the ping succeeded, the checkpoint was loaded and the
\* session is active.
C24_Witness ==
    /\ hist.pings = 1 /\ hist.loadKeys # {} /\ resumeAfter # NoToken
    /\ pc = "active" /\ hist.streamsCreated = 1

\* C25: under every_change, a token-changed notification that arrives while
\* checkpointing is enabled and the connection is open starts a write of its
\* token, whatever the cache holds and however little time has passed.
C25_EveryChangeAlwaysWrites ==
    [][ (saveFrequency = "every_change" /\ CanSave
         /\ Len(notified') = Len(notified) + 1) =>
          \E h \in inflight' :
              /\ h.id = Len(notified') /\ h.stage = "sent"
              /\ h.token = notified'[Len(notified')]
              /\ h \notin inflight ]_vars

\* C25 witness: under every_change the same token was notified twice at the
\* same clock value and written twice.
C25_Witness ==
    /\ saveFrequency = "every_change" /\ Len(writeLog) = 2
    /\ writeLog[1].token = writeLog[2].token
    /\ writeLog[1].updatedAt = writeLog[2].updatedAt
    /\ writeLog[1].id # writeLog[2].id

\* the checkpoint collection has a record for the key of this session
HasRecord == \E r \in store : r.key = ResumeTokenKey

\* C26: when the load finds no record for the key, nothing is raised,
\* startup goes on to the subscription, and the stream is created without a
\* resume position.
C26_AbsentCheckpointIsNoError ==
    [][ /\ (pc = "load" /\ ~ HasRecord) =>
              /\ pc' = "subscribe" /\ resumeAfter' = resumeAfter
              /\ startupError' = startupError /\ closeVars' = closeVars
              /\ hist'.raised = hist.raised
        /\ (pc = "subscribe" /\ pc' = "active" /\ ~ HasRecord) =>
              watch'.options.resumeAfter = Undefined ]_vars

\* C26 witness: the collection holds a record of another key only, the load
\* ran, and the session is active without a resume position.
C26_Witness ==
    /\ pc = "active" /\ writeLog = << >> /\ hist.raised = 0
    /\ store # {} /\ ~ HasRecord /\ hist.loadKeys # {}
    /\ watch.options.resumeAfter = Undefined /\ lastSavedToken = NoToken

\* C27: under the smart policy, once the handlers have returned, the cached
\* lastSavedToken equals the serialized token of the checkpoint record this
\* session last wrote.
C27_CacheEqualsPersisted ==
    ( /\ resumeFromDB /\ saveFrequency = "smart"
      /\ Quiescent /\ hist.saveFailures = 0 /\ Len(writeLog) > 0 ) =>
        \A r \in store : r.key = ResumeTokenKey =>
            lastSavedToken = TokenString(r.token)

\* C28: the stream is created only after the connection wait resolved, the
\* ping succeeded and, with checkpointing, the load completed; the load runs
\* only with checkpointing and after the connection; the session is active
\* only with its one stream created, and events, notifications and close
\* calls of the engine are handled only by an active session.
C28_StartupOrder ==
    /\ hist.streamsCreated > 0 =>
           /\ hist.connAttempts = 1 /\ waitPromise = "resolved" /\ hist.pings = 1
           /\ resumeFromDB => hist.loadKeys = {ResumeTokenKey}
    /\ hist.loadKeys # {} =>
           resumeFromDB /\ waitPromise = "resolved" /\ hist.pings = 1
    /\ pc = "load" => hist.streamsCreated = 0 /\ hist.loadKeys = {}
    /\ pc = "active" <=> hist.streamsCreated = 1
    /\ (reported > 0 \/ Len(notified) > 0 \/ emitted # << >> \/ inflight # {}
          \/ Len(writeLog) > 0) => pc = "active"
    /\ startupError # "none" => hist.streamsCreated = 0

\* C28 witness: an active session with checkpointing that loaded a token,
\* resumed after it and has handled one change.
C28_Witness ==
    /\ pc = "active" /\ resumeFromDB /\ hist.loadKeys # {}
    /\ watch.options.resumeAfter = ResumeToken(0)
    /\ Len(emitted) = 1 /\ Len(notified) = 1 /\ ~ isClosing

\* C29: a close call of the stream or of the connection is made only with
\* the closing flag set, and the connection close is started only once no
\* stream is left to stop: the stop of the stream, if one was started, has
\* completed.
C29_CloseOrder ==
    /\ closePc # "idle" => isClosing
    /\ hist.streamCloseAttempts > 0 => isClosing
    /\ closePc = "stopStream" => hist.connCloseAttempts = 0
    /\ hist.connCloseAttempts > 0 =>
           /\ isClosing /\ changeStream = "null" /\ closePc # "stopStream"
           /\ hist.streamCloseAttempts > 0 =>
                  streamState = "closed" /\ hist.streamCloseFailed = 0

\* C29 witness: the stream was stopped and the connection close is pending.
C29_Witness ==
    /\ hist.streamCloseAttempts = 1 /\ hist.connCloseAttempts = 1
    /\ streamState = "closed" /\ closePc = "closeConn" /\ nodeConnection = "conn"
    /\ pc = "active"

\* C30: a stream error, a connection error or a stream close delivered while
\* the closing flag is set is not logged and adds no record to the output.
C30_ClosingSuppressesReports ==
    [][ ( /\ isClosing
          /\ \/ hist'.streamErrors > hist.streamErrors
             \/ hist'.connErrors > hist.connErrors
             \/ streamState = "open" /\ streamState' = "closed" ) =>
          (hist'.reports = hist.reports /\ emitted' = emitted) ]_vars

\* C30 witness: in debug mode a stream error and a connection error arrived
\* during the close, the stream then closed, and nothing was reported.
C30_Witness ==
    /\ isClosing /\ cfg.debug
    /\ hist.streamErrors = 1 /\ hist.connErrors = 1 /\ streamState = "closed"
    /\ hist.reports = 0 /\ emitted = << >>

\* the parameters hold one of the errors of configuration: a watch level
\* that is none of the three, no collection for a collection watch, a filter
\* or projection that is not JSON, a database the credentials do not list
IsConfigurationError(p) ==
    \/ p.watchLevel \notin {"collection", "database", "deployment"}
    \/ p.watchLevel = "collection" /\ p.collection = ""
    \/ JsonThrows(p.matchFilter)
    \/ JsonThrows(p.projection)
    \/ p.database # "" /\ p.database \notin Range(p.credentials.databases)

\* C23: with an error in the configuration, startup fails while reading the
\* parameters: the session never gets past them and no connection is created.
C23_ConfigErrorFailsBeforeConnecting ==
    IsConfigurationError(cfg.params) =>
        /\ hist.connAttempts = 0
        /\ nodeConnection = "null"
        /\ pc \in {"start", "failed"}

\* the connection, the subscription, the closing flag and the checkpoint
\* cache of this session
OwnSession ==
    <<nodeConnection, connState, changeStream, streamState, watch, isClosing,
      closePc, lastSavedToken, lastSaveTime>>

C31_NoAutomaticRetry ==
    [][ /\ hist'.connAttempts <= 1 /\ hist'.streamsCreated <= 1
        /\ connState = "errored" => connState' \in {"errored", "closed"}
        /\ (hist'.streamErrors > 0 \/ hist'.connErrors > 0 \/ connState = "errored") =>
              /\ hist'.connAttempts = hist.connAttempts
              /\ hist'.streamsCreated = hist.streamsCreated
              /\ changeStream' \in {changeStream, "null"}
              /\ nodeConnection' \in {nodeConnection, "null"} ]_vars

\* C31 witness: the stream reported an error, was not replaced, delivered a
\* further change, and the session was then closed.
C31_Witness ==
    /\ hist.streamErrors = 1 /\ hist.streamsCreated = 1 /\ hist.connAttempts = 1
    /\ Len(notified) = 2 /\ closePc = "done" /\ streamState = "closed"
    /\ connState = "closed"

\* the indices of the stages of the pipeline that satisfy Is
StagesWhere(Is(_)) == {i \in DOMAIN watch.pipeline : Is(watch.pipeline[i])}

IsTypeMatch(st) == st.op = "$match" /\ "in" \in DOMAIN st
IsUserMatch(st) == st.op = "$match" /\ "filter" \in DOMAIN st
IsProjection(st) == st.op = "$project"

\* C32: the pipeline watch() was called with has one stage for each
\* non-empty input and none for an empty one, carrying that input; the
\* operation-type match comes before the user's match, and every match
\* before the projection.
C32_PipelineOrder ==
    pc = "active" =>
        /\ Cardinality(StagesWhere(IsTypeMatch))
              = (IF cfg.operationTypes # {} THEN 1 ELSE 0)
        /\ Cardinality(StagesWhere(IsUserMatch))
              = (IF cfg.matchFilter # {} THEN 1 ELSE 0)
        /\ Cardinality(StagesWhere(IsProjection))
              = (IF cfg.projection # {} THEN 1 ELSE 0)
        /\ Len(watch.pipeline)
              = Cardinality(StagesWhere(IsTypeMatch) \cup StagesWhere(IsUserMatch)
                              \cup StagesWhere(IsProjection))
        /\ \A i \in StagesWhere(IsTypeMatch) : watch.pipeline[i].in = cfg.operationTypes
        /\ \A i \in StagesWhere(IsUserMatch) : watch.pipeline[i].filter = cfg.matchFilter
        /\ \A i \in StagesWhere(IsProjection) : watch.pipeline[i].fields = cfg.projection
        /\ \A i \in StagesWhere(IsTypeMatch) : \A j \in StagesWhere(IsUserMatch) : i < j
        /\ \A i \in DOMAIN watch.pipeline : \A j \in StagesWhere(IsProjection) :
               i # j => i < j

\* C32 witness: all three inputs were given, two of them as JSON text, and
\* the pipeline has its three stages.
C32_Witness ==
    /\ pc = "active" /\ Len(watch.pipeline) = 3
    /\ cfg.params.matchFilter = Stringify(Object(cfg.matchFilter))
    /\ cfg.params.projection = Stringify(Object(cfg.projection))
    /\ cfg.operationTypes = {"insert", "update"}

\* C33: a stream is created only for one of the three watch levels, and on
\* the target of that level: the collection's model, the database, or the
\* connection.
C33_WatchAtConfiguredScope ==
    hist.streamsCreated > 0 =>
        /\ cfg.watchLevel \in {"collection", "database", "deployment"}
        /\ watch.target = cfg.watchLevel

\* C34: under smart, in a session that loaded a token from the checkpoint
\* collection, the first notification whose serialized token equals the
\* loaded one starts no write and leaves the collection as it is.
C34_LoadedTokenIsNotRewritten ==
    [][ ( /\ saveFrequency = "smart"
          /\ \E r \in hist.loaded : TokenString(r.token) = resumeAfter
          /\ Len(notified') = Len(notified) + 1
          /\ TokenString(notified'[Len(notified')]) = resumeAfter
          /\ \A i \in DOMAIN notified : TokenString(notified[i]) # resumeAfter ) =>
          (inflight' = inflight /\ store' = store /\ writeLog' = writeLog) ]_vars

\* C34 witness: the session resumed after the loaded token, the stream
\* reported that token first and a newer one next, and only the newer one
\* was written.
C34_Witness ==
    /\ saveFrequency = "smart" /\ hist.loaded # {} /\ Len(notified) = 2
    /\ TokenString(notified[1]) = resumeAfter /\ notified[2] = ResumeToken(1)
    /\ Len(writeLog) = 1 /\ writeLog[1].id = 2

\* the value watch() gets as resumeAfter from the configured resume token
ManualResumeAfter ==
    IF cfg.resumeAfter = NoToken THEN Undefined ELSE ParsedOrRaw(cfg.resumeAfter)

\* C35: a step in which the read of the checkpoint fails raises nothing,
\* starts no cleanup, keeps the configured resume token and goes on to the
\* subscription, and the stream is then created with the configured token
\* or, without one, with none.
C35_LoadFailureIsNotFatal ==
    [][ /\ (pc = "load" /\ pc' # "load" /\ HasRecord /\ hist'.loaded = {}) =>
              /\ pc' = "subscribe" /\ resumeAfter' = cfg.resumeAfter
              /\ startupError' = "none" /\ closeVars' = closeVars
              /\ hist'.raised = 0 /\ hist'.closeCalls = 0
        /\ (pc = "subscribe" /\ pc' # "subscribe" /\ hist.loaded = {}) =>
              /\ pc' = "active"
              /\ watch'.options.resumeAfter = ManualResumeAfter ]_vars

\* C35 witness: the collection holds a token for the key, the read failed,
\* and the session is active on the configured token.
C35_Witness ==
    /\ pc = "active" /\ hist.loadKeys # {} /\ hist.loaded = {}
    /\ \E r \in store : r.key = ResumeTokenKey /\ r.token = ResumeToken(0)
    /\ writeLog = << >> /\ cfg.resumeAfter # NoToken
    /\ watch.options.resumeAfter = ResumeToken(0 - 1)

\* C36: with a loaded record that has a token, the stream resumes after
\* that token, whatever was configured; the configured token is what
\* watch() gets exactly when no record with a token was loaded.
C36_LoadedTokenReplacesManual ==
    pc = "active" =>
        /\ \A r \in hist.loaded : Truthy(r.token) =>
               /\ resumeAfter = TokenString(r.token)
               /\ watch.options.resumeAfter = ParsedOrRaw(TokenString(r.token))
               /\ watch.options.resumeAfter # ManualResumeAfter
        /\ (~ \E r \in hist.loaded : Truthy(r.token)) =>
               watch.options.resumeAfter = ManualResumeAfter

\* C36 witness: a token was configured and another one loaded, and the
\* stream resumed after the loaded one.
C36_Witness ==
    /\ pc = "active" /\ cfg.resumeAfter # NoToken
    /\ \E r \in hist.loaded : r.token = ResumeToken(0)
    /\ watch.options.resumeAfter = ResumeToken(0)

\* closeFunction ran to its end and neither close call failed
ClosedWithoutError ==
    /\ isClosing /\ closePc = "done"
    /\ hist.streamCloseFailed = 0 /\ hist.connCloseFailed = 0

\* C37: a token notification handled after closeFunction completed without
\* error starts no write, and the connection it would have used is gone.
C37_NoWriteAfterClose ==
    [][ (ClosedWithoutError /\ Len(notified') > Len(notified)) =>
          /\ inflight' = inflight
          /\ nodeConnection = "null" /\ connState = "closed" ]_vars

\* C37 witness: under every_change the first notification was written, the
\* session was closed without error, and a second notification, delivered
\* after that, was not.
C37_Witness ==
    /\ ClosedWithoutError /\ saveFrequency = "every_change"
    /\ Len(notified) = 2 /\ notified[1] # notified[2]
    /\ Len(writeLog) = 1 /\ writeLog[1].id = 1 /\ inflight = {}
    /\ hist.saveFailures = 0

\* the notifications for which a write is pending or was pending, in the
\* set of handlers hs
WriteIds(hs) == {h.id : h \in hs}

\* C38: under throttled_5s the first notification of a session that can
\* save starts a write; a write is started for a notification only in the
\* step that delivers it, so a skipped notification is never written
\* later; and only started writes reach the collection.
C38_ThrottledFirstWrittenSkippedDropped ==
    [][ saveFrequency = "throttled_5s" =>
          /\ (CanSave /\ Len(notified) = 0 /\ Len(notified') = 1) =>
                 1 \in WriteIds(inflight')
          /\ WriteIds(inflight') \ WriteIds(inflight) # {} =>
                 /\ Len(notified') = Len(notified) + 1
                 /\ WriteIds(inflight') \ WriteIds(inflight) = {Len(notified')}
          /\ Len(writeLog') > Len(writeLog) =>
                 writeLog'[Len(writeLog')].id \in WriteIds(inflight) ]_vars

\* C38 witness: the first notification was written; a second one with a
\* newer token came within the interval, was skipped, and the session went
\* quiet with the record still at the first token.
C38_Witness ==
    /\ saveFrequency = "throttled_5s" /\ Len(notified) = 2
    /\ PosOf(notified[1]) < PosOf(notified[2])
    /\ Len(writeLog) = 1 /\ writeLog[1].id = 1 /\ Quiescent
    /\ \A r \in store : r.token = notified[1]
    /\ clock = StartClock

\* C39: under every_change and smart, in a running session whose writes all
\* succeeded, once no handler is pending the record of the key holds the
\* last token the stream reported.
C39_PersistedCatchesUp ==
    ( /\ resumeFromDB /\ saveFrequency \in {"every_change", "smart"}
      /\ pc = "active" /\ ~ isClosing
      /\ Quiescent /\ hist.saveFailures = 0 /\ Len(notified) > 0 ) =>
        /\ HasRecord
        /\ \A r \in store : r.key = ResumeTokenKey =>
               r.token = notified[Len(notified)]

\* C40: with resumeFromDB false no step reads the checkpoint collection,
\* starts a write or changes the collection.
C40_DisabledNeverTouchesStore ==
    [][ ~ resumeFromDB =>
          /\ pc' # "load" /\ hist'.loadKeys = {} /\ hist'.loaded = {}
          /\ inflight' = {} /\ writeLog' = << >>
          /\ store' = store
          /\ lastSavedToken' = NoToken ]_vars

\* C40 witness: a session without checkpointing ran next to a record an
\* earlier run left, handled two notifications and was closed; the record
\* is as it was.
C40_Witness ==
    /\ ~ resumeFromDB /\ Len(notified) = 2 /\ Len(emitted) >= 1
    /\ store = {CheckpointRecord(ObjectId(0), AutoKey(cfg.database, cfg.collection),
                                  ResumeToken(0), 0)}
    /\ closePc = "done" /\ hist.pings = 1 /\ hist.streamsCreated = 1

====
